---- MODULE Spec2Model ----
(***************************************************************************)
(* A model of app.py: the Streamlit script that loads data.csv through the *)
(* process-wide cache (load_data) and then, in main, derives the summary   *)
(* block and the tables behind Figures 1..8.                               *)
(*                                                                         *)
(* A DataFrame is a record [obj, rows]: rows is the sequence of its rows   *)
(* (each a function from column name to value) and obj names the Python    *)
(* object the frame lives in ("df": the object main holds as df, "tmp": an *)
(* object created by a later statement, "None": no frame), so that a       *)
(* column assignment writes to the loaded table exactly when the assigned  *)
(* frame is the loaded object.                                             *)
(* A float is modelled by the exact rational it approximates, or by NaN /  *)
(* +-inf where pandas' division produces them (x/0).                       *)
(***************************************************************************)
EXTENDS Integers, Sequences, FiniteSets, TLC

VARIABLES
    storage,          \* data.csv: [exists, rows]
    cache,            \* st.cache_data entry of load_data: [set, value, messages]
    reads,            \* number of times pd.read_csv was called in this process
    run,              \* number of the current script run (Streamlit reruns main)
    widget,           \* session state of the "Select Income Source" selectbox
    pc,               \* the section main is at, or stopped in, in the current run
    exc,              \* exception that ended the current run at pc ("none" if none)
    errors,           \* st.error messages shown in the current run
    df,               \* main's df
    summary,          \* the values computed for the summary of findings
    pctile_dist,      \* main's pctile_dist (set by Figure 3, read by Figure 6)
    inc_share_df,     \* main's inc_share_df (set by Figures 3 and 6, read by 7)
    source_income,    \* main's source_income (set by Figure 4, read by Figure 5)
    options,          \* options shown by the selectbox in the current run
    selected_source,  \* value returned by st.selectbox in the current run
    charts            \* the table handed to each st.plotly_chart call

vars == <<storage, cache, reads, run, widget, pc, exc, errors, df, summary,
          pctile_dist, inc_share_df, source_income, options, selected_source,
          charts>>

\* ---------------------------------------------------------------- bounds

\* Largest number of rows of data.csv.
MaxRows == 3
\* Largest number of script runs (the first run and the reruns) in the process.
MaxRuns == 2

\* ------------------------------------------------------- floats as ratios

Abs(x) == IF x < 0 THEN -x ELSE x

RECURSIVE GCD(_, _)
GCD(a, b) == IF b = 0 THEN a ELSE GCD(b, a % b)

NaN == [k |-> "nan", n |-> 0, d |-> 0]
Inf(s) == [k |-> "inf", n |-> s, d |-> 0]
\* the rational n/d, d /= 0, in lowest terms with a positive denominator
Fin(n, d) ==
    LET g == GCD(Abs(n), Abs(d))
        s == IF d < 0 THEN -1 ELSE 1
    IN  [k |-> "fin", n |-> (s * n) \div g, d |-> Abs(d) \div g]

\* Series / Series on numeric columns: true division, 0/0 = NaN, x/0 = +-inf
Div(n, d) ==
    IF d /= 0 THEN Fin(n, d)
    ELSE IF n = 0 THEN NaN
    ELSE Inf(IF n < 0 THEN -1 ELSE 1)

IsFinite(q) == q.k = "fin"
One == Fin(1, 1)
Zero == Fin(0, 1)

\* q1 + q2 and q1 <= q2 as IEEE floats have them (NaN absorbs, NaN compares false)
Add(q1, q2) ==
    IF q1.k = "nan" \/ q2.k = "nan" THEN NaN
    ELSE IF q1.k = "inf" /\ q2.k = "inf" THEN (IF q1.n = q2.n THEN q1 ELSE NaN)
    ELSE IF q1.k = "inf" THEN q1
    ELSE IF q2.k = "inf" THEN q2
    ELSE Fin(q1.n * q2.d + q2.n * q1.d, q1.d * q2.d)

Leq(q1, q2) ==
    IF q1.k = "nan" \/ q2.k = "nan" THEN FALSE
    ELSE IF q1.k = "inf" THEN (q1.n < 0 \/ (q2.k = "inf" /\ q2.n > 0))
    ELSE IF q2.k = "inf" THEN q2.n > 0
    ELSE q1.n * q2.d <= q2.n * q1.d

\* ------------------------------------------------------- frame operations

NoneFrame == [obj |-> "None", rows |-> <<>>]
IsNone(f) == f.obj = "None"
NewFrame(rows) == [obj |-> "tmp", rows |-> rows]

\* a boolean Series over the rows of a frame, such as frame['agi_stub'] != 0
Mask(f, Test(_)) == [i \in 1..Len(f.rows) |-> Test(f.rows[i])]

RECURSIVE Kept(_, _)
Kept(rows, mask) ==
    IF rows = <<>> THEN <<>>
    ELSE (IF mask[1] THEN <<rows[1]>> ELSE <<>>) \o Kept(Tail(rows), Tail(mask))

\* frame[mask] done in place: the rows are dropped from the indexed object
BoolIndexInPlace(f, mask) == [obj |-> f.obj, rows |-> Kept(f.rows, mask)]
\* frame[mask] with a boolean mask: a new object holding the rows the mask keeps
BoolIndex(f, mask) == NewFrame(Kept(f.rows, mask))

\* frame.copy()
Copy(f) == NewFrame(f.rows)

\* frame[[c1, c2, ...]]: a new object with these columns only
Project(f, cols) ==
    NewFrame([i \in 1..Len(f.rows) |-> [c \in cols |-> f.rows[i][c]]])

\* frame[col] = values: writes the column into the object of the frame
SetColumn(f, col, Value(_)) ==
    [obj |-> f.obj,
     rows |-> [i \in 1..Len(f.rows) |-> (col :> Value(f.rows[i])) @@ f.rows[i]]]

\* what the object main holds as df looks like after `f` was assigned to
WriteThrough(d, f) == IF f.obj = d.obj THEN [d EXCEPT !.rows = f.rows] ELSE d

\* frame[col].sum()
RECURSIVE ColSum(_, _)
ColSum(rows, col) ==
    IF rows = <<>> THEN 0 ELSE rows[1][col] + ColSum(Tail(rows), col)

RECURSIVE SortedSeq(_)
SortedSeq(S) ==
    IF S = {} THEN <<>>
    ELSE LET m == CHOOSE x \in S : \A y \in S : x <= y
         IN  <<m>> \o SortedSeq(S \ {m})

\* frame.sort_values('agi_stub')
RECURSIVE InsertRow(_, _)
InsertRow(r, sorted) ==
    IF sorted = <<>> THEN <<r>>
    ELSE IF r["agi_stub"] < sorted[1]["agi_stub"] THEN <<r>> \o sorted
    ELSE <<sorted[1]>> \o InsertRow(r, Tail(sorted))

RECURSIVE SortRows(_)
SortRows(rows) ==
    IF rows = <<>> THEN <<>>
    ELSE InsertRow(rows[Len(rows)], SortRows(SubSeq(rows, 1, Len(rows) - 1)))

sort_values(f) == NewFrame(SortRows(f.rows))

RECURSIVE Concat(_)
Concat(seqs) == IF seqs = <<>> THEN <<>> ELSE seqs[1] \o Concat(Tail(seqs))

\* pd.melt: for each value column in turn, one row per row of the frame
melt(f, id_vars, value_vars, var_name, value_name) ==
    NewFrame(Concat(
        [v \in 1..Len(value_vars) |->
            [i \in 1..Len(f.rows) |->
                (var_name :> value_vars[v]) @@
                (value_name :> f.rows[i][value_vars[v]]) @@
                [c \in id_vars |-> f.rows[i][c]]]]))

\* Series.unique(): the values in order of first appearance
RECURSIVE Unique(_, _)
Unique(rows, col) ==
    IF rows = <<>> THEN <<>>
    ELSE LET rest == Unique(SubSeq(rows, 1, Len(rows) - 1), col)
             v == rows[Len(rows)][col]
         IN  IF \E i \in 1..Len(rest) : rest[i] = v THEN rest ELSE Append(rest, v)

\* frame.groupby('year')[cols].sum().reset_index(): one row per year, by year
GroupByYearSum(f, cols) ==
    LET years == SortedSeq({f.rows[i]["year"] : i \in 1..Len(f.rows)})
    IN  NewFrame(
          [y \in 1..Len(years) |->
              ("year" :> years[y]) @@
              [c \in cols |->
                  ColSum(SelectSeq(f.rows, LAMBDA r : r["year"] = years[y]), c)]])

\* ------------------------------------------------------------ data.csv

\* One row of data.csv, with every column main reads.
\*   src: <<wages, interest, dividends, business, capital_gains, s_corp>>
\*   th:  <<agi_01, agi_05, agi_10, agi_50>>
\*   pa:  <<total_agi, sum_agi_01, sum_agi_05, sum_agi_10, sum_agi_50>>
\*   ps:  the same five for sal, int, div, businc, cpgain, scorp
Row(st, yr, stub, cat, ret, inc, agi, src, th, pa, ps) ==
    [ state |-> st, year |-> yr, agi_stub |-> stub, agi_stub_cat |-> cat,
     returns |-> ret, inc |-> inc, agi |-> agi,
     wages |-> src[1], interest |-> src[2], dividends |-> src[3],
     business |-> src[4], capital_gains |-> src[5], s_corp |-> src[6],
     agi_01 |-> th[1], agi_05 |-> th[2], agi_10 |-> th[3], agi_50 |-> th[4],
     total_agi |-> pa[1], sum_agi_01 |-> pa[2], sum_agi_05 |-> pa[3],
     sum_agi_10 |-> pa[4], sum_agi_50 |-> pa[5],
     total_sal_amt |-> ps[1][1], sum_sal_01 |-> ps[1][2], sum_sal_05 |-> ps[1][3],
     sum_sal_10 |-> ps[1][4], sum_sal_50 |-> ps[1][5],
     total_int_amt |-> ps[2][1], sum_int_01 |-> ps[2][2], sum_int_05 |-> ps[2][3],
     sum_int_10 |-> ps[2][4], sum_int_50 |-> ps[2][5],
     total_div_amt |-> ps[3][1], sum_div_01 |-> ps[3][2], sum_div_05 |-> ps[3][3],
     sum_div_10 |-> ps[3][4], sum_div_50 |-> ps[3][5],
     total_businc_amt |-> ps[4][1], sum_businc_01 |-> ps[4][2], sum_businc_05 |-> ps[4][3],
     sum_businc_10 |-> ps[4][4], sum_businc_50 |-> ps[4][5],
     total_cpgain_amt |-> ps[5][1], sum_cpgain_01 |-> ps[5][2], sum_cpgain_05 |-> ps[5][3],
     sum_cpgain_10 |-> ps[5][4], sum_cpgain_50 |-> ps[5][5],
     total_scorp_amt |-> ps[6][1], sum_scorp_01 |-> ps[6][2], sum_scorp_05 |-> ps[6][3],
     sum_scorp_10 |-> ps[6][4], sum_scorp_50 |-> ps[6][5]
    ]

NoSums == <<0, 0, 0, 0, 0>>
NoSourceSums == <<NoSums, NoSums, NoSums, NoSums, NoSums, NoSums>>
SourceSums ==
    << <<6, 1, 2, 3, 4>>, <<2, 1, 1, 1, 2>>, <<2, 1, 1, 2, 2>>,
       <<3, 0, 1, 1, 2>>, <<4, 2, 3, 3, 4>>, <<3, 1, 2, 2, 3>> >>
Thresholds == <<9, 7, 5, 1>>

\* a bracket row (agi_stub /= 0): the percentile columns are not populated
Bracket(st, yr, stub, cat, ret, inc, src) ==
    Row(st, yr, stub, cat, ret, inc, inc, src, Thresholds, NoSums, NoSourceSums)

\* an aggregate row (agi_stub = 0): state totals and the percentile columns
Aggregate(st, yr, pa, ps) ==
    Row(st, yr, 0, "All", 4, 8, 8, <<3, 1, 1, 1, 1, 1>>, Thresholds, pa, ps)

\* The rows data.csv is drawn from, in file order.  The four aggregate rows
\* of (IL, 2022) are alternatives: well-formed, all zero, top-50% sum above
\* the total, and cumulative sums that are not nested.
RowPool ==
    << Aggregate("IL", 2012, <<8, 1, 2, 4, 6>>, SourceSums),
       Bracket("IL", 2012, 1, "Under $25,000", 2, 2, <<2, 0, 0, 0, 0, 0>>),
       Bracket("IL", 2012, 10, "$1,000,000 or more", 1, 2, <<1, 0, 0, 0, 1, 0>>),
       Aggregate("IL", 2022, <<10, 2, 4, 5, 8>>, SourceSums),
       Aggregate("IL", 2022, NoSums, NoSourceSums),
       Aggregate("IL", 2022, <<10, 2, 4, 5, 12>>, SourceSums),
       Aggregate("IL", 2022, <<10, 6, 4, 5, 8>>, SourceSums),
       Bracket("IL", 2022, 10, "$1,000,000 or more", 1, 6, <<1, 1, 1, 1, 1, 1>>),
       Bracket("IL", 2022, 1, "Under $25,000", 3, 2, <<2, 0, 0, 0, 0, 0>>),
       Bracket("IL", 2022, 5, "$75,000 under $100,000", 0, 0, <<0, 0, 0, 0, 0, 0>>),
       Aggregate("WI", 2022, <<6, 1, 2, 3, 5>>, SourceSums),
       Bracket("WI", 2022, 10, "$1,000,000 or more", 5, 7, <<3, 1, 1, 1, 1, 0>>) >>

Key(r) == <<r.state, r.year, r.agi_stub>>

\* the tables of at most MaxRows rows with one row per (state, year, agi_stub)
RowSets ==
    {S \in SUBSET (1..Len(RowPool)) :
        /\ Cardinality(S) <= MaxRows
        /\ \A i, j \in S : i /= j => Key(RowPool[i]) /= Key(RowPool[j])}

Table(S) == LET idx == SortedSeq(S) IN [i \in 1..Len(idx) |-> RowPool[idx[i]]]

Storages ==
    {[exists |-> FALSE, rows |-> <<>>]} \cup
    {[exists |-> TRUE, rows |-> Table(S)] : S \in RowSets}

\* ------------------------------------------------------------ load_data

\* pd.read_csv followed by to_numeric(errors='ignore') on every column: the
\* numeric columns read_csv parsed stay as they are, and so do the text
\* columns (state, agi_stub_cat), which cannot be converted
ReadCsv(st) == [obj |-> "df", rows |-> st.rows]

NotFoundMessage == "Data file not found"

\* load_data's body with the FileNotFoundError of a missing file swallowed
\* into an empty table
load_data_empty(st) ==
    IF st.exists THEN [value |-> ReadCsv(st), messages |-> {}]
    ELSE [value |-> [obj |-> "df", rows |-> <<>>], messages |-> {}]

\* load_data's body: the table, or st.error and None when the file is missing
load_data(st) ==
    IF st.exists THEN [value |-> ReadCsv(st), messages |-> {}]
    ELSE [value |-> NoneFrame, messages |-> {NotFoundMessage}]

NoCache == [set |-> FALSE, value |-> NoneFrame, messages |-> {}]

CacheNeverHit(c) == FALSE
\* @st.cache_data: load_data takes no argument, so one entry serves every call
CacheHit(c) == c.set

Figures == {"fig1", "fig2", "fig3", "fig4", "fig5", "fig6", "fig7", "fig8"}
NoCharts == [f \in Figures |-> NoneFrame]
NoSummary == [set |-> FALSE]

IsIL2022(r) == r["year"] = 2022 /\ r["state"] = "IL"
IsIL(r) == r["state"] = "IL"
KeepAllRows(r) == TRUE
\* the mask agi_stub != 0 that drops the aggregate row
IsBracket(r) == r["agi_stub"] /= 0
IsAggregate(r) == r["agi_stub"] = 0

Init ==
    /\ storage \in Storages
    /\ cache = NoCache
    /\ reads = 0
    /\ run = 1
    /\ widget = "unset"
    /\ pc = "load"
    /\ exc = "none"
    /\ errors = {}
    /\ df = NoneFrame
    /\ summary = NoSummary
    /\ pctile_dist = NoneFrame
    /\ inc_share_df = NoneFrame
    /\ source_income = NoneFrame
    /\ options = <<>>
    /\ selected_source = "None"
    /\ charts = NoCharts

\* main, line 24: df = load_data(), through the cache
MainLoadData ==
    /\ pc = "load"
    /\ IF CacheHit(cache)
       THEN /\ df' = cache.value
            /\ errors' = errors \cup cache.messages
            /\ UNCHANGED <<cache, reads>>
       ELSE LET out == load_data(storage)
            IN  /\ cache' = [set |-> TRUE, value |-> out.value,
                             messages |-> out.messages]
                /\ reads' = reads + 1
                /\ df' = out.value
                /\ errors' = errors \cup out.messages
    /\ pc' = "check"
    /\ UNCHANGED <<storage, run, widget, exc, summary, pctile_dist,
                   inc_share_df, source_income, options, selected_source,
                   charts>>

\* main, lines 26-27: if df is None: return
MainCheck ==
    /\ pc = "check"
    /\ pc' = IF IsNone(df) THEN "done" ELSE "summary"
    /\ UNCHANGED <<storage, cache, reads, run, widget, exc, errors, df,
                   summary, pctile_dist, inc_share_df, source_income, options,
                   selected_source, charts>>

\* main, lines 47-61: the numbers of the summary of findings
SummaryOf(d) ==
    LET dfy == BoolIndex(d, Mask(d, LAMBDA r : r["year"] = 2022))
        dfx == BoolIndex(dfy, Mask(dfy, LAMBDA r : r["state"] = "IL"))
        y2022 == ColSum(BoolIndex(d, Mask(d, IsIL2022)).rows, "agi")
        y2012 == ColSum(BoolIndex(d, Mask(d,
                     LAMBDA r : r["year"] = 2012 /\ r["state"] = "IL")).rows, "agi")
    IN  IF dfx.rows = <<>>
        THEN [raised |-> TRUE, value |-> NoSummary]      \* unique()[0]: IndexError
        ELSE [raised |-> FALSE,
              value |-> [set |-> TRUE,
                         top_01 |-> Unique(dfx.rows, "agi_01")[1],
                         top_05 |-> Unique(dfx.rows, "agi_05")[1],
                         top_10 |-> Unique(dfx.rows, "agi_10")[1],
                         top_50 |-> Unique(dfx.rows, "agi_50")[1],
                         y2022 |-> y2022,
                         diff |-> y2022 - y2012,
                         change |-> Div(y2022 - y2012, y2012)]]

Summary ==
    /\ pc = "summary"
    /\ exc = "none"
    /\ LET out == SummaryOf(df)
       IN  /\ summary' = out.value
           /\ pc' = IF out.raised THEN pc ELSE "fig1"
           /\ exc' = IF out.raised THEN "IndexError" ELSE exc
    /\ UNCHANGED <<storage, cache, reads, run, widget, errors, df,
                   pctile_dist, inc_share_df, source_income, options,
                   selected_source, charts>>

\* main, lines 95-99: the Figure 1 table up to its two share columns
Figure1Shares(d) ==
    LET a1 == BoolIndex(d, Mask(d, IsBracket))
        a2 == BoolIndex(a1, Mask(a1, IsIL2022))
        a3 == Project(a2, {"state", "agi_stub_cat", "agi_stub", "returns", "inc"})
        a4 == SetColumn(a3, "Tax returns",
                        LAMBDA r : Div(r["returns"], ColSum(a3.rows, "returns")))
    IN  SetColumn(a4, "Income", LAMBDA r : Div(r["inc"], ColSum(a4.rows, "inc")))

\* main, lines 102-109: sorted by bracket and melted to one row per metric
Figure1Table(d) ==
    melt(sort_values(Figure1Shares(d)), {"agi_stub_cat", "agi_stub"},
         <<"Tax returns", "Income">>, "Legend", "Percentage")

Figure1 ==
    /\ pc = "fig1"
    /\ exc = "none"
    /\ df' = WriteThrough(df, Figure1Shares(df))
    /\ charts' = [charts EXCEPT !["fig1"] = Figure1Table(df)]
    /\ pc' = "fig2"
    /\ UNCHANGED <<storage, cache, reads, run, widget, exc, errors, summary,
                   pctile_dist, inc_share_df, source_income, options,
                   selected_source>>

\* DataFrame.merge(right, on='year'): inner join, in the order of the left rows
merge_on_year(left, right) ==
    NewFrame(Concat(
        [i \in 1..Len(left.rows) |->
            LET m == SelectSeq(right.rows,
                               LAMBDA r : r["year"] = left.rows[i]["year"])
            IN  [j \in 1..Len(m) |-> m[j] @@ left.rows[i]]]))

Rename(f, from, to) ==
    NewFrame(
      [i \in 1..Len(f.rows) |->
          LET r == f.rows[i]
              kept == DOMAIN r \ {from[k] : k \in 1..Len(from)}
          IN  [c \in kept \cup {to[k] : k \in 1..Len(to)} |->
                  IF c \in kept THEN r[c]
                  ELSE r[from[CHOOSE k \in 1..Len(to) : to[k] = c]]]])

\* main, lines 142-159: Figure 2, bracket 10 against all brackets per year
Figure2Table(d) ==
    LET a1 == BoolIndex(d, Mask(d, IsBracket))
        a2 == BoolIndex(a1, Mask(a1, IsIL))
        a3 == Project(a2, {"state", "year", "agi_stub_cat", "agi_stub",
                           "returns", "inc"})
        mil == Rename(GroupByYearSum(
                        BoolIndex(a3, Mask(a3, LAMBDA r : r["agi_stub"] = 10)),
                        {"returns", "inc"}),
                      <<"returns", "inc">>, <<"returns_10", "inc_10">>)
        tot == GroupByYearSum(a3, {"returns", "inc"})
        mrg == merge_on_year(tot, mil)
        m1 == SetColumn(mrg, "Tax returns",
                        LAMBDA r : Div(r["returns_10"], r["returns"]))
    IN  SetColumn(m1, "Income", LAMBDA r : Div(r["inc_10"], r["inc"]))

Figure2 ==
    /\ pc = "fig2"
    /\ exc = "none"
    /\ df' = WriteThrough(df, Figure2Table(df))
    /\ charts' = [charts EXCEPT !["fig2"] = Figure2Table(df)]
    /\ pc' = "fig3"
    /\ UNCHANGED <<storage, cache, reads, run, widget, exc, errors, summary,
                   pctile_dist, inc_share_df, source_income, options,
                   selected_source>>

\* main, lines 214-222 and 325-333: the columns Figures 6 and 7 read
IncShareColumns ==
    {"total_sal_amt", "total_int_amt", "total_div_amt", "total_businc_amt",
     "total_cpgain_amt", "total_scorp_amt", "sum_agi_01", "sum_agi_05",
     "sum_agi_10", "bottom_50", "sum_sal_01", "sum_sal_05",
     "sum_sal_10", "bottom_50_sal", "sum_int_01", "sum_int_05",
     "sum_int_10", "bottom_50_int", "sum_div_01", "sum_div_05",
     "sum_div_10", "bottom_50_div", "sum_businc_01", "sum_businc_05",
     "sum_businc_10", "bottom_50_businc", "sum_cpgain_01", "sum_cpgain_05",
     "sum_cpgain_10", "bottom_50_cpgain", "sum_scorp_01", "sum_scorp_05",
     "sum_scorp_10", "bottom_50_scorp"}

\* Figure3Frame with the bottom-50 amounts taken as total minus the top-10% sums
Figure3FrameTop10(d) ==
    LET p1 == BoolIndex(d, Mask(d, IsAggregate))
        p2 == BoolIndex(p1, Mask(p1, IsIL))
        b0 == SetColumn(p2, "bottom_50",
                        LAMBDA r : r["total_agi"] - r["sum_agi_10"])
        b1 == SetColumn(b0, "bottom_50_sal",
                        LAMBDA r : r["total_sal_amt"] - r["sum_sal_10"])
        b2 == SetColumn(b1, "bottom_50_int",
                        LAMBDA r : r["total_int_amt"] - r["sum_int_10"])
        b3 == SetColumn(b2, "bottom_50_div",
                        LAMBDA r : r["total_div_amt"] - r["sum_div_10"])
        b4 == SetColumn(b3, "bottom_50_businc",
                        LAMBDA r : r["total_businc_amt"] - r["sum_businc_10"])
        b5 == SetColumn(b4, "bottom_50_cpgain",
                        LAMBDA r : r["total_cpgain_amt"] - r["sum_cpgain_10"])
        b6 == SetColumn(b5, "bottom_50_scorp",
                        LAMBDA r : r["total_scorp_amt"] - r["sum_scorp_10"])
        t1 == SetColumn(b6, "Top 1%", LAMBDA r : Div(r["sum_agi_01"], r["total_agi"]))
        t2 == SetColumn(t1, "Top 5%", LAMBDA r : Div(r["sum_agi_05"], r["total_agi"]))
        t3 == SetColumn(t2, "Top 10%", LAMBDA r : Div(r["sum_agi_10"], r["total_agi"]))
    IN  SetColumn(t3, "Bottom 50%", LAMBDA r : Div(r["bottom_50"], r["total_agi"]))

\* main, lines 193-206: the aggregate rows of IL with the bottom-50 amounts
\* and the four shares of total AGI
Figure3Frame(d) ==
    LET p1 == BoolIndex(d, Mask(d, IsAggregate))
        p2 == BoolIndex(p1, Mask(p1, IsIL))
        b0 == SetColumn(p2, "bottom_50",
                        LAMBDA r : r["total_agi"] - r["sum_agi_50"])
        b1 == SetColumn(b0, "bottom_50_sal",
                        LAMBDA r : r["total_sal_amt"] - r["sum_sal_50"])
        b2 == SetColumn(b1, "bottom_50_int",
                        LAMBDA r : r["total_int_amt"] - r["sum_int_50"])
        b3 == SetColumn(b2, "bottom_50_div",
                        LAMBDA r : r["total_div_amt"] - r["sum_div_50"])
        b4 == SetColumn(b3, "bottom_50_businc",
                        LAMBDA r : r["total_businc_amt"] - r["sum_businc_50"])
        b5 == SetColumn(b4, "bottom_50_cpgain",
                        LAMBDA r : r["total_cpgain_amt"] - r["sum_cpgain_50"])
        b6 == SetColumn(b5, "bottom_50_scorp",
                        LAMBDA r : r["total_scorp_amt"] - r["sum_scorp_50"])
        t1 == SetColumn(b6, "Top 1%", LAMBDA r : Div(r["sum_agi_01"], r["total_agi"]))
        t2 == SetColumn(t1, "Top 5%", LAMBDA r : Div(r["sum_agi_05"], r["total_agi"]))
        t3 == SetColumn(t2, "Top 10%", LAMBDA r : Div(r["sum_agi_10"], r["total_agi"]))
    IN  SetColumn(t3, "Bottom 50%", LAMBDA r : Div(r["bottom_50"], r["total_agi"]))

\* main, lines 212-222 and 323-333: the 2022 row of pctile_dist
IncShareOf(p) ==
    LET c == Copy(p)
    IN  Project(BoolIndex(c, Mask(c, LAMBDA r : r["year"] = 2022)),
                IncShareColumns)

Figure3 ==
    /\ pc = "fig3"
    /\ exc = "none"
    /\ pctile_dist' = Figure3Frame(df)
    /\ df' = WriteThrough(df, pctile_dist')
    /\ inc_share_df' = IncShareOf(pctile_dist')
    /\ charts' = [charts EXCEPT !["fig3"] = pctile_dist']
    /\ pc' = "fig4"
    /\ UNCHANGED <<storage, cache, reads, run, widget, exc, errors, summary,
                   source_income, options, selected_source>>

SourceColumns ==
    <<"wages", "interest", "dividends", "business", "capital_gains", "s_corp">>
SourceLabels ==
    <<"Wages and Salaries", "Interest", "Dividends", "Business",
      "Capital Gains", "S-Corp">>
\* the order groupby(['Income Source']) sorts the labels in
SourceLabelsSorted ==
    <<"Business", "Capital Gains", "Dividends", "Interest", "S-Corp",
      "Wages and Salaries">>

\* main, lines 246-266: the long table, one row per (bracket, source)
Figure4Long(d) ==
    LET s1 == Copy(d)
        s2 == BoolIndex(s1, Mask(s1, IsIL2022))
        s3 == BoolIndex(s2, Mask(s2, IsBracket))
        s4 == Project(s3, {"agi_stub_cat", "agi_stub", "agi", "inc", "wages",
                           "interest", "dividends", "business", "capital_gains",
                           "s_corp"})
        s5 == Rename(s4, SourceColumns, SourceLabels)
        s6 == melt(s5, {"agi_stub_cat", "agi_stub", "inc"}, SourceLabels,
                   "Income Source", "Amount")
    IN  SetColumn(s6, "Source of Income (%)",
                  LAMBDA r : Div(r["Amount"], r["inc"]))

\* main, lines 269-271: the total Amount of every source
ShareOf(long) ==
    LET present == SelectSeq(SourceLabelsSorted,
                     LAMBDA l : \E i \in 1..Len(long.rows) :
                                    long.rows[i]["Income Source"] = l)
    IN  NewFrame(
          [k \in 1..Len(present) |->
              [x \in {"Income Source", "Share of Income"} |->
                  IF x = "Income Source" THEN present[k]
                  ELSE ColSum(SelectSeq(long.rows,
                         LAMBDA r : r["Income Source"] = present[k]), "Amount")]])

\* main, lines 273-274: left merge on the source, then the share of the total
Figure4Merged(d) ==
    LET long == Figure4Long(d)
        share == ShareOf(long)
        mrg == NewFrame(
                 [i \in 1..Len(long.rows) |->
                     LET m == SelectSeq(share.rows,
                                LAMBDA r : r["Income Source"] =
                                           long.rows[i]["Income Source"])
                     IN  ("Share of Income" :> m[1]["Share of Income"]) @@
                         long.rows[i]])
    IN  SetColumn(mrg, "Share of Income (%)",
                  LAMBDA r : Div(r["Amount"], r["Share of Income"]))

\* st.selectbox(options, index=0): the value the user left the widget on, the
\* first option when there is none, None when there is no option
SelectBox(opts, w) ==
    IF opts = <<>> THEN "None"
    ELSE IF \E i \in 1..Len(opts) : opts[i] = w THEN w
    ELSE opts[1]

\* main, lines 246-296
Figure4 ==
    /\ pc = "fig4"
    /\ exc = "none"
    /\ LET merged == Figure4Merged(df)
       IN  /\ df' = WriteThrough(df, merged)
           /\ options' = Unique(merged.rows, "Income Source")
           /\ selected_source' = SelectBox(options', widget)
           /\ source_income' =
                  BoolIndex(merged, Mask(merged,
                      LAMBDA r : r["Income Source"] = selected_source'))
           /\ charts' = [charts EXCEPT !["fig4"] = source_income']
    /\ pc' = "fig5"
    /\ UNCHANGED <<storage, cache, reads, run, widget, exc, errors, summary,
                   pctile_dist, inc_share_df>>

\* main, lines 299-317: the chart is built from source_income as Figure 4 left it
Figure5 ==
    /\ pc = "fig5"
    /\ exc = "none"
    /\ charts' = [charts EXCEPT !["fig5"] = source_income]
    /\ pc' = "fig6"
    /\ UNCHANGED <<storage, cache, reads, run, widget, exc, errors, df,
                   summary, pctile_dist, inc_share_df, source_income, options,
                   selected_source>>

\* the labels in rank order, which is not the order of the value lists
catsByRank == <<"Top 1%", "Top 5%", "Top 10%", "Bottom 50%">>

\* main, lines 364 and 421: the labels, in the order of the value lists
cats == <<"Bottom 50%", "Top 1%", "Top 5%", "Top 10%">>

\* main, lines 335-377: each source's share of the AGI of a percentile group
Figure6Table(isd) ==
    LET r == isd.rows[1]        \* .iloc[0]
        wages ==
        << Div(r["bottom_50_sal"], r["bottom_50"]),
           Div(r["sum_sal_01"], r["sum_agi_01"]),
           Div(r["sum_sal_05"], r["sum_agi_05"]),
           Div(r["sum_sal_10"], r["sum_agi_10"]) >>
        interest ==
        << Div(r["bottom_50_int"], r["bottom_50"]),
           Div(r["sum_int_01"], r["sum_agi_01"]),
           Div(r["sum_int_05"], r["sum_agi_05"]),
           Div(r["sum_int_10"], r["sum_agi_10"]) >>
        dividends ==
        << Div(r["bottom_50_div"], r["bottom_50"]),
           Div(r["sum_div_01"], r["sum_agi_01"]),
           Div(r["sum_div_05"], r["sum_agi_05"]),
           Div(r["sum_div_10"], r["sum_agi_10"]) >>
        business ==
        << Div(r["bottom_50_businc"], r["bottom_50"]),
           Div(r["sum_businc_01"], r["sum_agi_01"]),
           Div(r["sum_businc_05"], r["sum_agi_05"]),
           Div(r["sum_businc_10"], r["sum_agi_10"]) >>
        capital_gains ==
        << Div(r["bottom_50_cpgain"], r["bottom_50"]),
           Div(r["sum_cpgain_01"], r["sum_agi_01"]),
           Div(r["sum_cpgain_05"], r["sum_agi_05"]),
           Div(r["sum_cpgain_10"], r["sum_agi_10"]) >>
        s_corp ==
        << Div(r["bottom_50_scorp"], r["bottom_50"]),
           Div(r["sum_scorp_01"], r["sum_agi_01"]),
           Div(r["sum_scorp_05"], r["sum_agi_05"]),
           Div(r["sum_scorp_10"], r["sum_agi_10"]) >>
        income_shares ==
            NewFrame([i \in 1..4 |->
                ("Percentile" :> cats[i]) @@
                ("Wages and Salaries" :> wages[i]) @@
                ("Interest" :> interest[i]) @@
                ("Dividends" :> dividends[i]) @@
                ("Business" :> business[i]) @@
                ("Capital Gains" :> capital_gains[i]) @@
                ("S-Corp" :> s_corp[i])])
    IN  melt(income_shares, {"Percentile"}, SourceLabels, "Income Source", "Share")

\* main, lines 392-434: each percentile group's share of a source's total
Figure7Table(isd) ==
    LET r == isd.rows[1]        \* .iloc[0]
        wages_share ==
        << Div(r["bottom_50_sal"], r["total_sal_amt"]),
           Div(r["sum_sal_01"], r["total_sal_amt"]),
           Div(r["sum_sal_05"], r["total_sal_amt"]),
           Div(r["sum_sal_10"], r["total_sal_amt"]) >>
        interest_share ==
        << Div(r["bottom_50_int"], r["total_int_amt"]),
           Div(r["sum_int_01"], r["total_int_amt"]),
           Div(r["sum_int_05"], r["total_int_amt"]),
           Div(r["sum_int_10"], r["total_int_amt"]) >>
        dividends_share ==
        << Div(r["bottom_50_div"], r["total_div_amt"]),
           Div(r["sum_div_01"], r["total_div_amt"]),
           Div(r["sum_div_05"], r["total_div_amt"]),
           Div(r["sum_div_10"], r["total_div_amt"]) >>
        business_share ==
        << Div(r["bottom_50_businc"], r["total_businc_amt"]),
           Div(r["sum_businc_01"], r["total_businc_amt"]),
           Div(r["sum_businc_05"], r["total_businc_amt"]),
           Div(r["sum_businc_10"], r["total_businc_amt"]) >>
        capital_gains_share ==
        << Div(r["bottom_50_cpgain"], r["total_cpgain_amt"]),
           Div(r["sum_cpgain_01"], r["total_cpgain_amt"]),
           Div(r["sum_cpgain_05"], r["total_cpgain_amt"]),
           Div(r["sum_cpgain_10"], r["total_cpgain_amt"]) >>
        s_corp_share ==
        << Div(r["bottom_50_scorp"], r["total_scorp_amt"]),
           Div(r["sum_scorp_01"], r["total_scorp_amt"]),
           Div(r["sum_scorp_05"], r["total_scorp_amt"]),
           Div(r["sum_scorp_10"], r["total_scorp_amt"]) >>
        income_shares_share ==
            NewFrame([i \in 1..4 |->
                ("Percentile" :> cats[i]) @@
                ("Wages and Salaries" :> wages_share[i]) @@
                ("Interest" :> interest_share[i]) @@
                ("Dividends" :> dividends_share[i]) @@
                ("Business" :> business_share[i]) @@
                ("Capital Gains" :> capital_gains_share[i]) @@
                ("S-Corp" :> s_corp_share[i])])
    IN  melt(income_shares_share, {"Percentile"}, SourceLabels,
             "Income Source", "Share")

\* main, lines 323-388; .iloc[0] of an empty selection raises IndexError
Figure6 ==
    /\ pc = "fig6"
    /\ exc = "none"
    /\ inc_share_df' = IncShareOf(pctile_dist)
    /\ IF inc_share_df'.rows = <<>>
       THEN /\ pc' = pc
            /\ exc' = "IndexError"
            /\ UNCHANGED charts
       ELSE /\ pc' = "fig7"
            /\ charts' = [charts EXCEPT !["fig6"] = Figure6Table(inc_share_df')]
            /\ UNCHANGED exc
    /\ UNCHANGED <<storage, cache, reads, run, widget, errors, df, summary,
                   pctile_dist, source_income, options, selected_source>>

\* main, lines 390-445
Figure7 ==
    /\ pc = "fig7"
    /\ exc = "none"
    /\ IF inc_share_df.rows = <<>>
       THEN /\ pc' = pc
            /\ exc' = "IndexError"
            /\ UNCHANGED charts
       ELSE /\ pc' = "fig8"
            /\ charts' = [charts EXCEPT !["fig7"] = Figure7Table(inc_share_df)]
            /\ UNCHANGED exc
    /\ UNCHANGED <<storage, cache, reads, run, widget, errors, df, summary,
                   pctile_dist, inc_share_df, source_income, options,
                   selected_source>>

\* main, lines 450-463: per year, each source's share of the brackets' income
Figure8Table(d) ==
    LET i1 == Copy(d)
        i2 == BoolIndex(i1, Mask(i1, IsIL))
        i3 == Project(i2, {"year", "agi_stub", "inc", "wages", "interest",
                           "dividends", "business", "capital_gains", "s_corp"})
        i4 == BoolIndex(i3, Mask(i3, IsBracket))
        i5 == GroupByYearSum(i4, {"agi_stub", "inc", "wages", "interest",
                                  "dividends", "business", "capital_gains",
                                  "s_corp"})
        w1 == SetColumn(i5, "Wages", LAMBDA r : Div(r["wages"], r["inc"]))
        w2 == SetColumn(w1, "Interest", LAMBDA r : Div(r["interest"], r["inc"]))
        w3 == SetColumn(w2, "Dividends", LAMBDA r : Div(r["dividends"], r["inc"]))
        w4 == SetColumn(w3, "Business", LAMBDA r : Div(r["business"], r["inc"]))
        w5 == SetColumn(w4, "Capital Gains",
                        LAMBDA r : Div(r["capital_gains"], r["inc"]))
    IN  SetColumn(w5, "S-Corp", LAMBDA r : Div(r["s_corp"], r["inc"]))

\* main, lines 450-487, after which main returns
Figure8 ==
    /\ pc = "fig8"
    /\ exc = "none"
    /\ df' = WriteThrough(df, Figure8Table(df))
    /\ charts' = [charts EXCEPT !["fig8"] = Figure8Table(df)]
    /\ pc' = "done"
    /\ UNCHANGED <<storage, cache, reads, run, widget, exc, errors, summary,
                   pctile_dist, inc_share_df, source_income, options,
                   selected_source>>

\* Streamlit runs the script again (a widget interaction or a reload): the
\* locals and the page of the last run are gone, the cache and the widget's
\* value stay
Rerun ==
    /\ pc = "done" \/ exc /= "none"
    /\ run < MaxRuns
    /\ run' = run + 1
    /\ \E w \in {widget} \cup {options[i] : i \in 1..Len(options)} : widget' = w
    /\ pc' = "load"
    /\ exc' = "none"
    /\ errors' = {}
    /\ df' = NoneFrame
    /\ summary' = NoSummary
    /\ pctile_dist' = NoneFrame
    /\ inc_share_df' = NoneFrame
    /\ source_income' = NoneFrame
    /\ options' = <<>>
    /\ selected_source' = "None"
    /\ charts' = NoCharts
    /\ UNCHANGED <<storage, cache, reads>>

Next ==
    \/ MainLoadData
    \/ MainCheck
    \/ Summary
    \/ Figure1
    \/ Figure2
    \/ Figure3
    \/ Figure4
    \/ Figure5
    \/ Figure6
    \/ Figure7
    \/ Figure8
    \/ Rerun

Spec == Init /\ [][Next]_vars

\* ---------------------------------------------------------------- claims

\* the columns of a figure's table that hold the ratios its chart plots
RatioColumns(f) ==
    CASE f = "fig1" -> {"Percentage"}
      [] f = "fig2" -> {"Tax returns", "Income"}
      [] f = "fig3" -> {"Top 1%", "Top 5%", "Top 10%", "Bottom 50%"}
      [] f = "fig4" -> {"Source of Income (%)"}
      [] f = "fig5" -> {"Share of Income (%)"}
      [] f = "fig6" -> {"Share"}
      [] f = "fig7" -> {"Share"}
      [] f = "fig8" -> {"Wages", "Interest", "Dividends", "Business",
                        "Capital Gains", "S-Corp"}

\* the rows of table d that the filter of a section of main selects
Selected(sec, d) ==
    CASE sec = "summary" ->
           SelectSeq(d.rows, LAMBDA r : r["year"] = 2022 /\ r["state"] = "IL")
      [] sec \in {"fig1", "fig4", "fig5"} ->
           SelectSeq(d.rows, LAMBDA r : r["agi_stub"] /= 0 /\ r["year"] = 2022
                                        /\ r["state"] = "IL")
      [] sec \in {"fig2", "fig8"} ->
           SelectSeq(d.rows, LAMBDA r : r["agi_stub"] /= 0 /\ r["state"] = "IL")
      [] sec = "fig3" ->
           SelectSeq(d.rows, LAMBDA r : r["agi_stub"] = 0 /\ r["state"] = "IL")
      [] sec \in {"fig6", "fig7"} ->
           SelectSeq(d.rows, LAMBDA r : r["agi_stub"] = 0 /\ r["year"] = 2022
                                        /\ r["state"] = "IL")

\* C1: when data.csv is missing, load_data reports the not-found condition
\* with st.error and returns None, and main returns without computing the
\* summary or any figure and without rendering any chart.
C1_NotFoundHaltsMain ==
    (~storage.exists /\ pc /= "load") =>
        /\ IsNone(df)
        /\ NotFoundMessage \in errors
        /\ pc \in {"check", "done"}
        /\ exc = "none"
        /\ summary = NoSummary
        /\ charts = NoCharts
        /\ IsNone(pctile_dist) /\ IsNone(inc_share_df) /\ IsNone(source_income)

\* a run of main over a missing file has returned
C1_Witness == ~storage.exists /\ pc = "done" /\ NotFoundMessage \in errors

\* C2: a failure in one derivation does not keep the others from producing
\* output: once main has stopped over a loaded table, every figure whose own
\* filter selects the rows its derivation needs has been rendered.
C2_DerivationsIsolated ==
    (~IsNone(df) /\ (pc = "done" \/ exc /= "none")) =>
        \A f \in Figures :
            (f \in {"fig6", "fig7"} => Selected(f, df) /= <<>>)
                => ~IsNone(charts[f])

\* C3: a derivation whose filter matches no row of the loaded table does not
\* raise and hands an empty table to its chart.
C3_EmptyFilterEmptyOutput ==
    ~IsNone(df) =>
        /\ exc /= "none" => Selected(pc, df) /= <<>>
        /\ \A f \in Figures :
              (~IsNone(charts[f]) /\ Selected(f, df) = <<>>)
                  => charts[f].rows = <<>>

\* C4: no ratio handed to a chart is NaN or infinite: a share whose
\* denominator is zero is left out instead.
C4_NoNaNOrInfinity ==
    \A f \in Figures :
        \A i \in 1..Len(charts[f].rows) :
            \A c \in RatioColumns(f) : IsFinite(charts[f].rows[i][c])

\* the sum of the ratios in column c of the rows
RECURSIVE SumRatios(_, _)
SumRatios(rows, c) ==
    IF rows = <<>> THEN Zero ELSE Add(rows[1][c], SumRatios(Tail(rows), c))

\* the bracket rows of (2022, IL) in the loaded table
Slice2022 ==
    SelectSeq(df.rows, LAMBDA r : r["agi_stub"] /= 0 /\ r["year"] = 2022
                                  /\ r["state"] = "IL")

Fig1Rows(legend) ==
    SelectSeq(charts["fig1"].rows, LAMBDA r : r["Legend"] = legend)

\* Figure 1 has one row per (bracket, metric), each the bracket's amount over
\* the total of the bracket rows alone
Fig1OneRowPerBracketAndMetric ==
    /\ Len(charts["fig1"].rows) = 2 * Len(Slice2022)
    /\ \A i \in 1..Len(Slice2022) :
          LET b == Slice2022[i]
              of(legend) == SelectSeq(Fig1Rows(legend),
                                LAMBDA r : r["agi_stub"] = b["agi_stub"])
          IN  /\ Len(of("Tax returns")) = 1
              /\ Len(of("Income")) = 1
              /\ of("Tax returns")[1]["Percentage"] =
                     Div(b["returns"], ColSum(Slice2022, "returns"))
              /\ of("Income")[1]["Percentage"] =
                     Div(b["inc"], ColSum(Slice2022, "inc"))

\* C5 as stated: for any (2022, IL) slice with at least one bracket row the
\* Figure 1 shares of returns sum to 1 and the shares of income sum to 1, with
\* one row per (bracket, metric) and the aggregate row left out of both the
\* numerators and the denominators.
C5_SharesSumToOne ==
    (~IsNone(charts["fig1"]) /\ Slice2022 /= <<>>) =>
        /\ SumRatios(Fig1Rows("Tax returns"), "Percentage") = One
        /\ SumRatios(Fig1Rows("Income"), "Percentage") = One
        /\ Fig1OneRowPerBracketAndMetric

\* C5 amended: the shares of returns sum to 1 when the brackets' returns do
\* not sum to zero, and the shares of income sum to 1 when the brackets' inc
\* does not sum to zero; the rest as stated.
C5_SharesSumToOneIfTotalNonZero ==
    (~IsNone(charts["fig1"]) /\ Slice2022 /= <<>>) =>
        /\ ColSum(Slice2022, "returns") /= 0 =>
              SumRatios(Fig1Rows("Tax returns"), "Percentage") = One
        /\ ColSum(Slice2022, "inc") /= 0 =>
              SumRatios(Fig1Rows("Income"), "Percentage") = One
        /\ Fig1OneRowPerBracketAndMetric

\* Figure 1 was rendered from two brackets with non-zero totals, with the
\* aggregate row of (2022, IL) in the table
C5_Witness ==
    /\ ~IsNone(charts["fig1"])
    /\ Len(Slice2022) >= 2
    /\ ColSum(Slice2022, "returns") /= 0
    /\ ColSum(Slice2022, "inc") /= 0
    /\ \E i \in 1..Len(df.rows) :
          /\ df.rows[i]["agi_stub"] = 0 /\ df.rows[i]["returns"] /= 0
          /\ df.rows[i]["year"] = 2022 /\ df.rows[i]["state"] = "IL"

\* C6: in every row of Figure 3 whose cumulative sums are nested
\* (sum_agi_01 <= sum_agi_05 <= sum_agi_10 <= total_agi) the shares satisfy
\* top 1% <= top 5% <= top 10% <= 1.
C6_SharesNested ==
    \A i \in 1..Len(charts["fig3"].rows) :
        LET r == charts["fig3"].rows[i]
        IN  (/\ r["sum_agi_01"] <= r["sum_agi_05"]
             /\ r["sum_agi_05"] <= r["sum_agi_10"]
             /\ r["sum_agi_10"] <= r["total_agi"])
            => /\ Leq(r["Top 1%"], r["Top 5%"])
               /\ Leq(r["Top 5%"], r["Top 10%"])
               /\ Leq(r["Top 10%"], One)

BottomColumns ==
    {"bottom_50", "bottom_50_sal", "bottom_50_int", "bottom_50_div",
     "bottom_50_businc", "bottom_50_cpgain", "bottom_50_scorp"}

\* C7: a negative bottom-50 amount (of AGI or of a source) is flagged as
\* malformed data: none reaches the Figure 3, 6 or 7 tables without a
\* message to the user.
C7_NegativeBottom50Flagged ==
    \A i \in 1..Len(charts["fig3"].rows) :
        (\E c \in BottomColumns : charts["fig3"].rows[i][c] < 0)
            => errors /= {}

\* C8: a figure's table depends on the loaded table and its own parameter
\* only; in particular the table of Figure 5 is the same whichever source
\* Figure 4's selector is on.
C8_Figure5IgnoresSelection ==
    ~IsNone(charts["fig5"]) =>
        \A k \in 1..Len(options) :
            charts["fig5"] =
                NewFrame(SelectSeq(Figure4Merged(df).rows,
                    LAMBDA r : r["Income Source"] =
                               SelectBox(options, options[k])))

\* C9: the loaded table is never mutated after load and nothing is written
\* back to storage: no step of main after the load changes df, and no step at
\* all changes data.csv.
C9_TableNeverMutated ==
    [][/\ storage' = storage
       /\ (pc /= "load" /\ pc' /= "load") => df' = df]_vars

\* a run over a loaded table went through every figure
C9_Witness ==
    /\ pc = "done"
    /\ ~IsNone(df) /\ df.rows = storage.rows /\ Len(df.rows) = MaxRows
    /\ \A f \in Figures : ~IsNone(charts[f])

\* C10: the load is cached for the life of the process: storage is read at
\* most once, every call returns the table the first call returned, and that
\* table is what a fresh read of the file gives.
C10_LoadedOnce ==
    /\ reads <= 1
    /\ pc /= "load" =>
          /\ cache.set
          /\ df = cache.value
          /\ df = load_data(storage).value

\* a rerun got its table from the cache
C10_Witness ==
    run >= 2 /\ pc = "summary" /\ reads = 1 /\ Len(df.rows) >= 1

\* the rows of a table for one bracket and one income source
RowsOf(rows, stub, source) ==
    SelectSeq(rows, LAMBDA r : r["agi_stub"] = stub /\ r["Income Source"] = source)

\* C12: Figure 5 is built from the unfiltered long table: whatever source the
\* selector of Figure 4 is on, the table of Figure 5 has one row per
\* (bracket, source) for all six sources, and only the table of Figure 4 is
\* cut down to the selected source.
C12_Figure5Unfiltered ==
    ~IsNone(charts["fig5"]) =>
        /\ Len(charts["fig5"].rows) = 6 * Len(Slice2022)
        /\ \A i \in 1..Len(Slice2022) : \A k \in 1..Len(SourceLabels) :
              Len(RowsOf(charts["fig5"].rows, Slice2022[i]["agi_stub"],
                         SourceLabels[k])) = 1
        /\ \A j \in 1..Len(charts["fig4"].rows) :
              charts["fig4"].rows[j]["Income Source"] = selected_source

\* the total and the top-10% and top-50% cumulative columns of AGI and of the
\* six sources, with the bottom-50 column derived from them
AmountColumns ==
    << <<"total_agi", "sum_agi_10", "sum_agi_50", "bottom_50">>,
       <<"total_sal_amt", "sum_sal_10", "sum_sal_50", "bottom_50_sal">>,
       <<"total_int_amt", "sum_int_10", "sum_int_50", "bottom_50_int">>,
       <<"total_div_amt", "sum_div_10", "sum_div_50", "bottom_50_div">>,
       <<"total_businc_amt", "sum_businc_10", "sum_businc_50", "bottom_50_businc">>,
       <<"total_cpgain_amt", "sum_cpgain_10", "sum_cpgain_50", "bottom_50_cpgain">>,
       <<"total_scorp_amt", "sum_scorp_10", "sum_scorp_50", "bottom_50_scorp">> >>

\* the aggregate rows of IL in the loaded table
AggregateRowsIL ==
    SelectSeq(df.rows, LAMBDA r : r["agi_stub"] = 0 /\ r["state"] = "IL")

\* the row of Figure 3 for a year
Fig3RowsOf(year) ==
    SelectSeq(charts["fig3"].rows, LAMBDA r : r["year"] = year)

\* C13 as stated: for every aggregate row the bottom-50 amount of AGI and of
\* each source is the total minus the top-10% cumulative amount, and the
\* 'Bottom 50%' share of Figure 3 is that amount over total_agi.
C13_BottomIsTotalMinusTop10 ==
    ~IsNone(charts["fig3"]) =>
        \A i \in 1..Len(AggregateRowsIL) :
            LET a == AggregateRowsIL[i]
                out == Fig3RowsOf(a["year"])
            IN  /\ Len(out) = 1
                /\ \A k \in 1..Len(AmountColumns) :
                      out[1][AmountColumns[k][4]] =
                          a[AmountColumns[k][1]] - a[AmountColumns[k][2]]
                /\ out[1]["Bottom 50%"] =
                      Div(a["total_agi"] - a["sum_agi_10"], a["total_agi"])

\* C13 amended: the bottom-50 amount is the total minus the top-50%
\* cumulative amount (bottom_50 = total_agi - sum_agi_50, bottom_50_<source> =
\* total_<source>_amt - sum_<source>_50), and the 'Bottom 50%' share of
\* Figure 3 is that amount over total_agi.
C13_BottomIsTotalMinusTop50 ==
    ~IsNone(charts["fig3"]) =>
        \A i \in 1..Len(AggregateRowsIL) :
            LET a == AggregateRowsIL[i]
                out == Fig3RowsOf(a["year"])
            IN  /\ Len(out) = 1
                /\ \A k \in 1..Len(AmountColumns) :
                      out[1][AmountColumns[k][4]] =
                          a[AmountColumns[k][1]] - a[AmountColumns[k][3]]
                /\ out[1]["Bottom 50%"] =
                      Div(a["total_agi"] - a["sum_agi_50"], a["total_agi"])

\* Figure 3 was rendered from an aggregate row whose top-10% and top-50% sums
\* differ, for AGI and for a source
C13_Witness ==
    /\ ~IsNone(charts["fig3"])
    /\ \E i \in 1..Len(AggregateRowsIL) :
          /\ AggregateRowsIL[i]["sum_agi_10"] /= AggregateRowsIL[i]["sum_agi_50"]
          /\ AggregateRowsIL[i]["sum_sal_10"] /= AggregateRowsIL[i]["sum_sal_50"]
          /\ AggregateRowsIL[i]["total_agi"] /= 0

\* the bracket rows of IL in the loaded table
BracketRowsIL ==
    SelectSeq(df.rows, LAMBDA r : r["agi_stub"] /= 0 /\ r["state"] = "IL")

\* the sum of a column over the rows of one year
YearSum(rows, year, col) ==
    ColSum(SelectSeq(rows, LAMBDA r : r["year"] = year), col)

\* the bracket-10 rows among some rows
Top10Rows(rows) ==
    SelectSeq(rows, LAMBDA r : r["agi_stub"] = 10)

\* C14: the table of Figure 2 has exactly one row for every year in which IL
\* has a bracket row, a year without a bracket-10 row included, and no other
\* row; the row carries the bracket-10 sum of inc over the all-bracket sum of
\* inc and the same for returns, both taken over that year's rows only.
C14_OneRowPerBracketYear ==
    ~IsNone(charts["fig2"]) =>
        /\ \A i \in 1..Len(BracketRowsIL) :
              LET y == BracketRowsIL[i]["year"]
                  out == SelectSeq(charts["fig2"].rows, LAMBDA r : r["year"] = y)
              IN  /\ Len(out) = 1
                  /\ out[1]["Income"] =
                        Div(YearSum(Top10Rows(BracketRowsIL), y, "inc"),
                            YearSum(BracketRowsIL, y, "inc"))
                  /\ out[1]["Tax returns"] =
                        Div(YearSum(Top10Rows(BracketRowsIL), y, "returns"),
                            YearSum(BracketRowsIL, y, "returns"))
        /\ \A j \in 1..Len(charts["fig2"].rows) :
              \E i \in 1..Len(BracketRowsIL) :
                  BracketRowsIL[i]["year"] = charts["fig2"].rows[j]["year"]

\* the total and the cumulative top-1%, top-5%, top-10% and top-50% columns
\* of AGI, then of the six sources in the order of SourceLabels
PercentileColumns ==
    << <<"total_agi", "sum_agi_01", "sum_agi_05", "sum_agi_10", "sum_agi_50">>,
       <<"total_sal_amt", "sum_sal_01", "sum_sal_05", "sum_sal_10", "sum_sal_50">>,
       <<"total_int_amt", "sum_int_01", "sum_int_05", "sum_int_10", "sum_int_50">>,
       <<"total_div_amt", "sum_div_01", "sum_div_05", "sum_div_10", "sum_div_50">>,
       <<"total_businc_amt", "sum_businc_01", "sum_businc_05", "sum_businc_10",
         "sum_businc_50">>,
       <<"total_cpgain_amt", "sum_cpgain_01", "sum_cpgain_05", "sum_cpgain_10",
         "sum_cpgain_50">>,
       <<"total_scorp_amt", "sum_scorp_01", "sum_scorp_05", "sum_scorp_10",
         "sum_scorp_50">> >>

\* the four percentile groups
PercentileGroups == {"Top 1%", "Top 5%", "Top 10%", "Bottom 50%"}

\* the amount of one quantity (AGI or a source, by its columns) that an
\* aggregate row attributes to a percentile group
AmountIn(a, cols, group) ==
    CASE group = "Top 1%" -> a[cols[2]]
      [] group = "Top 5%" -> a[cols[3]]
      [] group = "Top 10%" -> a[cols[4]]
      [] group = "Bottom 50%" -> a[cols[1]] - a[cols[5]]

\* the aggregate row of (IL, 2022) in the loaded table
Aggregate2022 ==
    SelectSeq(df.rows, LAMBDA r : r["agi_stub"] = 0 /\ r["state"] = "IL"
                                  /\ r["year"] = 2022)

\* the rows of a table of Figure 6 or 7 for one group and one source
CellsOf(rows, group, source) ==
    SelectSeq(rows, LAMBDA r : r["Percentile"] = group
                               /\ r["Income Source"] = source)

\* C15: the tables of Figures 6 and 7 have exactly the four percentile groups
\* and, for each of the six sources and each group, one row labelled with that
\* group and source; its value in Figure 6 is the source's amount in the group
\* over the group's AGI, and in Figure 7 the source's amount in the group over
\* the source's total.
C15_SharesByPercentile ==
    /\ ~IsNone(charts["fig6"]) =>
          /\ Len(Aggregate2022) = 1
          /\ Len(charts["fig6"].rows) = 24
          /\ {charts["fig6"].rows[j]["Percentile"] :
                 j \in 1..Len(charts["fig6"].rows)} = PercentileGroups
          /\ \A k \in 1..Len(SourceLabels) : \A g \in PercentileGroups :
                LET out == CellsOf(charts["fig6"].rows, g, SourceLabels[k])
                    a == Aggregate2022[1]
                IN  /\ Len(out) = 1
                    /\ out[1]["Share"] =
                          Div(AmountIn(a, PercentileColumns[k + 1], g),
                              AmountIn(a, PercentileColumns[1], g))
    /\ ~IsNone(charts["fig7"]) =>
          /\ Len(Aggregate2022) = 1
          /\ Len(charts["fig7"].rows) = 24
          /\ {charts["fig7"].rows[j]["Percentile"] :
                 j \in 1..Len(charts["fig7"].rows)} = PercentileGroups
          /\ \A k \in 1..Len(SourceLabels) : \A g \in PercentileGroups :
                LET out == CellsOf(charts["fig7"].rows, g, SourceLabels[k])
                    a == Aggregate2022[1]
                IN  /\ Len(out) = 1
                    /\ out[1]["Share"] =
                          Div(AmountIn(a, PercentileColumns[k + 1], g),
                              a[PercentileColumns[k + 1][1]])

\* Figures 6 and 7 were rendered from an aggregate row whose four groups hold
\* different amounts of AGI and of wages, none of them zero
C15_Witness ==
    /\ ~IsNone(charts["fig6"])
    /\ ~IsNone(charts["fig7"])
    /\ Len(Aggregate2022) = 1
    /\ \A g \in PercentileGroups : \A h \in PercentileGroups :
          LET a == Aggregate2022[1]
          IN  /\ AmountIn(a, PercentileColumns[1], g) > 0
              /\ AmountIn(a, PercentileColumns[2], g) > 0
              /\ g /= h =>
                    Div(AmountIn(a, PercentileColumns[2], g),
                        AmountIn(a, PercentileColumns[1], g))
                    /= Div(AmountIn(a, PercentileColumns[2], h),
                           AmountIn(a, PercentileColumns[1], h))
====
